---- MODULE Spec2Model ----
(***************************************************************************)
(* State-machine model of the drawing / prompt overlay                     *)
(* (setupDrawingToolMessageHandler and the DrawingTool it drives).         *)
(*                                                                         *)
(* The module-level variables of the handler, the DrawingTool fields it    *)
(* reads and writes, the listeners it registers on window and the          *)
(* messages it posts to the parent window are the state.  One action per   *)
(* DOM event dispatch, parent message, or animation-frame callback.        *)
(* Cursor styling, canvas pixels and the brush width in pixels             *)
(* (brushPixelSize) are rendering state and are not represented; every     *)
(* other value the handlers store or post is.                              *)
(***************************************************************************)
EXTENDS Integers, Sequences, FiniteSets, TLC

\* ------------------------------------------------------------------ bounds
MaxStrokes == 1
MaxUndoStrokes == 2
MaxPrompts == 2
MaxPts == 2
MaxListeners == 2
MaxSnapshots == 2

\* ------------------------------------------------------- nullable values
\* A nullable JS value is a sequence of length <= 1: <<>> is null.
Null == <<>>
Some(v) == <<v>>
Val(o) == o[1]

\* JS NaN: the one non-finite number the model needs.  Every comparison with
\* it is false, so equality and ordering go through the operators below.
NaN == -999
isFinite(v) == v # NaN
StrictNeq(a, b) == a = NaN \/ b = NaN \/ a # b
Lt(a, b) == a # NaN /\ b # NaN /\ a < b
Ge(a, b) == a # NaN /\ b # NaN /\ a >= b

\* ------------------------------------------------------ coordinate spaces
\* viewer.coordinateSpace.value: dimension names and the bounds per dimension.
CS_xyz == [names |-> <<"x", "y", "z">>,
           lowerBounds |-> <<0, 0, 0>>, upperBounds |-> <<2, 2, 2>>]
CS_zyx == [names |-> <<"z", "y", "x">>,
           lowerBounds |-> <<0, 0, 0>>, upperBounds |-> <<2, 2, 2>>]
CS_xyzt == [names |-> <<"x", "y", "z", "t">>,
            lowerBounds |-> <<0, 0, 0, 0>>, upperBounds |-> <<2, 2, 2, 2>>]
CS_txyz == [names |-> <<"t", "x", "y", "z">>,
            lowerBounds |-> <<0, 0, 0, 0>>, upperBounds |-> <<2, 2, 2, 2>>]
CoordSpaces == {CS_xyz, CS_zyx, CS_xyzt, CS_txyz}

\* viewer.mouseState.position at the time of an event, per rank: inside
\* the bounds, outside them, and with a non-finite entry.
Positions3 == {<<0, 0, 0>>, <<0, 5, 0>>, <<NaN, 0, 0>>}
Positions4 == {<<0, 0, 0, 0>>, <<0, 5, 0, 0>>, <<0, 0, 1, 5>>, <<1, 0, 0, NaN>>}
MousePositions(cs) == IF Len(cs.names) = 3 THEN Positions3 ELSE Positions4

\* ------------------------------------------------------------ input sets
Buttons == {0, 1, 2, 3}
\* Where a mouse/keyboard event's target sits: inside the rendered data
\* panel of a slice view, of the perspective (3D) view, or elsewhere in the
\* viewer container.
Targets == {"slice", "persp", "other"}
ScreenPts == {<<0, 0>>, <<1, 0>>}
DrawingModes == {"null", "brush", "eraser"}
PromptModes == {"null", "point", "bbox", "scribble", "lasso"}
Polarities == {"positive", "negative"}
Colors == {"#ff0000", "#00ff00"}
Sizes == {8, 4}
VoxelSizeChoices == {Null, Some(<<1, 1, 1>>)}
ScaleBarChoices == {Null, Some(10)}

VARIABLES
  coordinateSpace,   \* viewer.coordinateSpace.value
  activeMode,        \* drawingTool.activeMode.value    ("null" for null)
  promptMode,        \* drawingTool.promptMode.value
  promptPolarity,    \* drawingTool.promptPolarity.value
  strokeColor,       \* drawingTool.strokeColor.value
  brushPhysicalSize, \* drawingTool.brushPhysicalSize.value
  isEraser,          \* drawingTool.isEraser.value
  isDrawing,         \* drawingTool.isDrawing
  startXY,           \* drawingTool.startX / startY
  snapshot,          \* drawingTool.snapshot is non-null
  strokeData, promptData, currentStroke, currentPrompt,
  isCapturing, rafId, pendingXY, lastScreen, lastScaleBarLength,
  listeners,         \* number of (onMove, onUp) closure pairs on window
  lockedBBox, lockedPosition, lockedZoomFactor,
  navPosition, navZoom,  \* viewer.navigationState.position / zoomFactor
  activePluginId, activePluginKeys,
  pendingBlobs,      \* canvas.toBlob calls whose callback has not run yet
  pendingReaders,    \* FileReaders whose onloadend has not run yet
  ev,                \* the DOM event dispatched by the last step, with what
                     \* the listeners did to it
  outbox,            \* messages posted to window.parent by the last step
  hGesture,          \* history: the accepted mousedown(s) since the last mouseup
  hLock,             \* history: the last view_locked / view_unlocked message,
                     \* and whether a reset_to_locked_view came after it
  hPlugin,           \* history: the last plugin_activated / plugin_deactivated
  hPrompts,          \* history: the prompts committed since the last prompt_clear
  hSnap              \* history: drawing_snapshot requests received, toBlob
                     \* callbacks that got null, snapshots posted

toolVars == <<activeMode, promptMode, promptPolarity, strokeColor,
              brushPhysicalSize, isEraser>>
gestureVars == <<isDrawing, startXY, snapshot, strokeData, promptData,
                 currentStroke, currentPrompt, isCapturing, rafId, pendingXY,
                 lastScreen, lastScaleBarLength, listeners>>
lockVars == <<lockedBBox, lockedPosition, lockedZoomFactor>>
navVars == <<navPosition, navZoom>>
pluginVars == <<activePluginId, activePluginKeys>>
snapVars == <<pendingBlobs, pendingReaders, hSnap>>
vars == <<coordinateSpace, toolVars, gestureVars, lockVars, navVars,
          pluginVars, snapVars, ev, outbox, hGesture, hLock, hPlugin, hPrompts>>

\* ---------------------------------------------------------- pure helpers
NaNPoint == [x |-> NaN, y |-> NaN, z |-> NaN]

isValidPoint(p) == isFinite(p.x) /\ isFinite(p.y) /\ isFinite(p.z)

\* pos is the mouse position (a tuple), cs the coordinate space.
isInDataBounds(pos, cs) ==
  /\ Len(pos) >= 3
  /\ \A i \in 1..3 :
       /\ isFinite(pos[i])
       /\ ~(Lt(pos[i], cs.lowerBounds[i]) \/ Ge(pos[i], cs.upperBounds[i]))

\* Array.prototype.indexOf, 1-based; 0 stands for JS -1.
indexOf(names, n) ==
  IF \E i \in 1..Len(names) : names[i] = n
  THEN CHOOSE i \in 1..Len(names) :
         names[i] = n /\ \A j \in 1..(i - 1) : names[j] # n
  ELSE 0

voxelPoint(pos, cs) ==
  IF Len(pos) < 3 THEN NaNPoint
  ELSE LET idx_x == indexOf(cs.names, "x")
           idx_y == indexOf(cs.names, "y")
           idx_z == indexOf(cs.names, "z")
       IN IF Len(cs.names) >= 3 /\ idx_x > 0 /\ idx_y > 0 /\ idx_z > 0
          THEN [x |-> pos[idx_x], y |-> pos[idx_y], z |-> pos[idx_z]]
          ELSE [x |-> pos[1], y |-> pos[2], z |-> pos[3]]

pushUniquePoint_always(arr, p) == Append(arr, p)

pushUniquePoint(arr, p) ==
  IF Len(arr) = 0
     \/ StrictNeq(arr[Len(arr)].x, p.x)
     \/ StrictNeq(arr[Len(arr)].y, p.y)
     \/ StrictNeq(arr[Len(arr)].z, p.z)
  THEN Append(arr, p)
  ELSE arr

isOnDataPanel(target) == target \in {"slice", "persp"}

isOnSliceViewPanel(target) == isOnDataPanel(target) /\ target = "slice"

\* minPixelStep = 0.75 = MinPixelStepNum / MinPixelStepDen
MinPixelStepNum == 3
MinPixelStepDen == 4

\* -------------------------------------------------------- event records
\* The mouse-button or keyboard event the last step dispatched, or the
\* message event if its handler reads or writes strokeData or promptData
\* ("none" for every other step).  data is the type of a message event;
\* strokes and prompts are the lengths of strokeData and promptData its
\* handler found.  prevented / stopped are the event's
\* defaultPrevented and propagation-stopped flags after every listener of
\* this program ran; byTool, byLock and byKeys say which listener set them
\* (onMouseDown, the locked-view listeners, the document keydown listener);
\* ran lists the listeners of this program the event was dispatched to, in
\* the order they ran.
Ev(kind) ==
  [kind |-> kind, button |-> 0, target |-> "", key |-> "",
   data |-> "", strokes |-> 0, prompts |-> 0,
   ctrl |-> FALSE, meta |-> FALSE, alt |-> FALSE, shift |-> FALSE,
   prevented |-> FALSE, stopped |-> FALSE,
   byTool |-> FALSE, byLock |-> FALSE, byKeys |-> FALSE, ran |-> <<>>]

NaNXY == <<NaN, NaN>>

NoGesture ==
  [kind |-> "none", polarity |-> "", first |-> NaNPoint, seen |-> {}]

\* ------------------------------------------------------ capture state
\* The capture state as one record: a handler is then a function from
\* state to state, and the closures registered on window run in turn.
G ==
  [isDrawing |-> isDrawing, startXY |-> startXY, snapshot |-> snapshot,
   strokeData |-> strokeData, promptData |-> promptData,
   currentStroke |-> currentStroke, currentPrompt |-> currentPrompt,
   isCapturing |-> isCapturing, rafId |-> rafId, pendingXY |-> pendingXY,
   lastScreen |-> lastScreen, lastScaleBarLength |-> lastScaleBarLength,
   listeners |-> listeners, out |-> <<>>]

SetG(g) ==
  /\ isDrawing' = g.isDrawing
  /\ startXY' = g.startXY
  /\ snapshot' = g.snapshot
  /\ strokeData' = g.strokeData
  /\ promptData' = g.promptData
  /\ currentStroke' = g.currentStroke
  /\ currentPrompt' = g.currentPrompt
  /\ isCapturing' = g.isCapturing
  /\ rafId' = g.rafId
  /\ pendingXY' = g.pendingXY
  /\ lastScreen' = g.lastScreen
  /\ lastScaleBarLength' = g.lastScaleBarLength
  /\ listeners' = g.listeners
  /\ outbox' = g.out

sendAnnotationStateUpdate(n) ==
  [type |-> "annotation_state_update", strokeCount |-> n,
   canUndo |-> (n > 0), canRedo |-> FALSE]

finishCapture(g) ==
  [g EXCEPT !.isCapturing = FALSE, !.isDrawing = FALSE,
            !.snapshot = FALSE, !.rafId = FALSE]

enqueueDraw(g, c) ==
  LET dx == c[1] - g.lastScreen[1]
      dy == c[2] - g.lastScreen[2]
  IN IF isFinite(g.lastScreen[1])
        /\ MinPixelStepDen * MinPixelStepDen * (dx * dx + dy * dy)
             < MinPixelStepNum * MinPixelStepNum
     THEN g
     ELSE [g EXCEPT !.pendingXY = Some(c), !.rafId = TRUE]

\* ------------------------------------------------------------ mousedown
Accepted(button, target, pos) ==
  /\ ~(activeMode = "null" /\ promptMode = "null")
  /\ button = 0
  /\ isOnDataPanel(target)
  /\ isInDataBounds(pos, coordinateSpace)

newStroke(pt, vs) ==
  [mode |-> "brush", color |-> strokeColor, physicalSize |-> brushPhysicalSize,
   voxelSizes |-> vs, points |-> IF isValidPoint(pt) THEN <<pt>> ELSE <<>>]

newPrompt(mode, pt) ==
  IF mode = "point" THEN [mode |-> "point", point |-> pt, polarity |-> promptPolarity]
  ELSE IF mode = "bbox"
  THEN [mode |-> "bbox", startPoint |-> pt, endPoint |-> pt,
        polarity |-> promptPolarity]
  ELSE [mode |-> mode, points |-> IF isValidPoint(pt) THEN <<pt>> ELSE <<>>,
        polarity |-> promptPolarity]

\* onMouseDown; vs is calculatePhysicalSizePerVoxel(viewer), sb is
\* getScaleBarPhysicalLength(viewer), c the container coordinates.
onMouseDown(g, button, target, pos, c, vs, sb) ==
  IF ~Accepted(button, target, pos) THEN g
  ELSE
    LET pt == voxelPoint(pos, coordinateSpace)
        sbNew == sb # Null /\ sb # g.lastScaleBarLength
        sbMsg == IF sbNew
                 THEN <<[type |-> "scale_bar_update", scaleBarLength |-> Val(sb)]>>
                 ELSE <<>>
        vsMsg == IF vs # Null
                 THEN <<[type |-> "voxel_sizes_update", voxelSizes |-> Val(vs)]>>
                 ELSE <<>>
        g0 == [g EXCEPT !.isCapturing = TRUE, !.lastScreen = NaNXY,
                        !.startXY = c, !.isDrawing = TRUE,
                        !.lastScaleBarLength = IF sbNew THEN sb ELSE @,
                        !.out = g.out \o sbMsg \o vsMsg]
        reg(h) == [h EXCEPT !.listeners = @ + 1]
    IN IF activeMode \in {"brush", "eraser"}
       THEN reg([g0 EXCEPT !.currentStroke = Some(newStroke(pt, vs))])
       ELSE IF promptMode = "point"
       THEN IF isValidPoint(pt)
            THEN [g0 EXCEPT !.currentPrompt = Some(newPrompt("point", pt))]
            ELSE g0
       ELSE IF promptMode = "bbox"
       THEN reg([g0 EXCEPT !.currentPrompt = Some(newPrompt("bbox", pt)),
                           !.snapshot = TRUE])
       ELSE IF promptMode \in {"scribble", "lasso"}
       THEN reg([g0 EXCEPT !.currentPrompt = Some(newPrompt(promptMode, pt))])
       ELSE reg(g0)

\* The locked-view mousedown listener: does it block this event?
lockMouseDownBlocks(button, target) ==
  /\ lockedBBox # Null
  /\ isOnSliceViewPanel(target)
  /\ \/ (activeMode = "null" /\ promptMode = "null")
     \/ button = 1 \/ button = 2

GestureKind == IF activeMode \in {"brush", "eraser"} THEN "brush" ELSE promptMode

\* The capture-phase mousedown listeners of the container, in the order of
\* their addEventListener calls, which is the order a dispatch runs them in.
containerMouseDownListeners == <<"onMouseDown", "lockedMouseDown">>

\* A mousedown inside the viewer container: both capture-phase listeners of
\* the container run (neither stops the other: stopPropagation does not
\* reach listeners of the same element).  Neither writes what the other
\* reads, so what they do to the event is computed side by side.
\* A brush gesture starts only while strokeData holds fewer than maxStrokes
\* strokes.
MouseDownUpTo(maxStrokes, button, target, pos, c, vs, sb) ==
  LET acc == Accepted(button, target, pos)
      blk == lockMouseDownBlocks(button, target)
  IN /\ acc /\ GestureKind # "point" => listeners < MaxListeners
     /\ acc /\ GestureKind = "brush" => Len(strokeData) < maxStrokes
     /\ acc /\ GestureKind # "brush" => Len(promptData) < MaxPrompts
     /\ SetG(onMouseDown(G, button, target, pos, c, vs, sb))
     /\ ev' = [Ev("mousedown") EXCEPT !.button = button, !.target = target,
                 !.prevented = acc \/ blk, !.stopped = acc \/ blk,
                 !.byTool = acc, !.byLock = blk,
                 !.ran = containerMouseDownListeners]
     /\ hGesture' = IF acc
                    THEN [kind |-> GestureKind, polarity |-> promptPolarity,
                          first |-> voxelPoint(pos, coordinateSpace),
                          seen |-> {}]
                    ELSE hGesture
     /\ UNCHANGED <<coordinateSpace, snapVars, toolVars, lockVars, navVars, pluginVars,
                    hLock, hPlugin, hPrompts>>

MouseDown(button, target, pos, c, vs, sb) ==
  MouseDownUpTo(MaxStrokes, button, target, pos, c, vs, sb)

\* ------------------------------------------------- mousemove / mouseup
\* One registered onMove closure handling a mousemove.
onMove(g, target, pos, c) ==
  IF ~g.isCapturing THEN g
  ELSE IF g.currentStroke = Null /\ g.currentPrompt = Null THEN g
  ELSE IF ~isOnDataPanel(target) \/ ~isInDataBounds(pos, coordinateSpace)
  THEN [g EXCEPT !.rafId = FALSE, !.pendingXY = Null]
  ELSE
    LET p == voxelPoint(pos, coordinateSpace)
        g1 == IF g.currentStroke # Null
              THEN [g EXCEPT !.currentStroke[1].points = pushUniquePoint(@, p)]
              ELSE IF Val(g.currentPrompt).mode = "bbox"
              THEN [g EXCEPT !.currentPrompt[1].endPoint = p]
              ELSE IF Val(g.currentPrompt).mode \in {"scribble", "lasso"}
              THEN [g EXCEPT !.currentPrompt[1].points = pushUniquePoint(@, p)]
              ELSE g
    IN enqueueDraw(g1, c)

cleanup_whenPending(g) ==
  IF g.currentStroke = Null /\ g.currentPrompt = Null THEN g
  ELSE [g EXCEPT !.listeners = @ - 1]

\* cleanup(): the closure removes its own onMove and onUp from window.
cleanup(g) == [g EXCEPT !.listeners = @ - 1]

\* One registered onUp closure handling a mouseup: commitStroke, which
\* starts with cleanup() of the closure's own two listeners.
commitStroke(g) ==
  LET g0 == cleanup(g)
      g1 == IF g0.currentStroke # Null
            THEN LET s == Val(g0.currentStroke)
                     sd == Append(g0.strokeData, s)
                     isEraserMode == activeMode = "eraser" \/ isEraser
                     msg == [type |-> "drawing_stroke_complete",
                             stroke |-> [mode |-> s.mode, points |-> s.points,
                                         physicalSize |-> s.physicalSize,
                                         voxelSizes |-> s.voxelSizes,
                                         color |-> s.color,
                                         isEraser |-> isEraserMode]]
                 IN finishCapture(
                      [g0 EXCEPT !.strokeData = sd, !.currentStroke = Null,
                                 !.out = @ \o <<msg, sendAnnotationStateUpdate(Len(sd))>>])
            ELSE g0
  IN IF g1.currentPrompt # Null
     THEN LET pd == Append(g1.promptData, Val(g1.currentPrompt))
          IN [finishCapture(g1) EXCEPT
                !.promptData = pd, !.currentPrompt = Null,
                !.out = @ \o <<[type |-> "prompt_complete", prompts |-> pd]>>]
     ELSE g1

RECURSIVE moveAll(_, _, _, _, _)
moveAll(n, g, target, pos, c) ==
  IF n = 0 THEN g ELSE moveAll(n - 1, onMove(g, target, pos, c), target, pos, c)

RECURSIVE upAll(_, _)
upAll(n, g) == IF n = 0 THEN g ELSE upAll(n - 1, commitStroke(g))

\* Number of points in the stroke or prompt in progress.
CurLen ==
  IF currentStroke # Null THEN Len(Val(currentStroke).points)
  ELSE IF currentPrompt # Null /\ Val(currentPrompt).mode \in {"scribble", "lasso"}
  THEN Len(Val(currentPrompt).points)
  ELSE 0

\* A mousemove anywhere in the window while gesture listeners are
\* registered: every registered onMove runs.
MouseMove(target, pos, c) ==
  /\ listeners > 0
  /\ CurLen < MaxPts
  /\ SetG(moveAll(listeners, G, target, pos, c))
  /\ ev' = Ev("none")
  /\ hGesture' = IF isOnDataPanel(target) /\ isInDataBounds(pos, coordinateSpace)
                 THEN [hGesture EXCEPT
                         !.seen = @ \cup {voxelPoint(pos, coordinateSpace)}]
                 ELSE hGesture
  /\ UNCHANGED <<coordinateSpace, snapVars, toolVars, lockVars, navVars, pluginVars,
                 hLock, hPlugin, hPrompts>>

\* A mouseup anywhere in the window: every registered onUp runs.
MouseUp ==
  /\ SetG(upAll(listeners, G))
  /\ ev' = [Ev("mouseup") EXCEPT !.ran = [i \in 1..listeners |-> "onUp"]]
  /\ hGesture' = NoGesture
  /\ hPrompts' = hPrompts \o SubSeq(promptData', Len(promptData) + 1, Len(promptData'))
  /\ UNCHANGED <<coordinateSpace, snapVars, toolVars, lockVars, navVars, pluginVars,
                 hLock, hPlugin>>

\* The animation-frame callback drawStep.
DrawStep ==
  /\ rafId
  /\ rafId' = FALSE
  /\ IF ~isCapturing \/ pendingXY = Null
        \/ (currentStroke = Null /\ currentPrompt = Null)
     THEN UNCHANGED <<pendingXY, lastScreen>>
     ELSE pendingXY' = Null /\ lastScreen' = Val(pendingXY)
  /\ ev' = Ev("none")
  /\ outbox' = <<>>
  /\ UNCHANGED <<coordinateSpace, snapVars, toolVars, isDrawing, startXY, snapshot,
                 strokeData, promptData, currentStroke, currentPrompt,
                 isCapturing, lastScaleBarLength, listeners, lockVars, navVars,
                 pluginVars, hGesture, hLock, hPlugin, hPrompts>>

\* ------------------------------------------- messages from the parent
\* The messages whose handlers read or write strokeData or promptData.
DataMessages == {"annotation_undo", "annotation_redo", "annotation_clear",
                 "annotation_state_sync", "drawing_clear", "prompt_clear"}

\* Every message handler leaves the capture state alone unless it says
\* otherwise; Msg states what a handler that posts `out` leaves unchanged
\* besides the variable groups it names.
Msg(type, out) ==
  /\ ev' = IF type \in DataMessages
           THEN [Ev("message") EXCEPT !.data = type,
                                      !.strokes = Len(strokeData),
                                      !.prompts = Len(promptData)]
           ELSE Ev("none")
  /\ outbox' = out
  /\ UNCHANGED <<coordinateSpace, snapVars, hGesture>>

gestureRest == <<isDrawing, startXY, snapshot, currentStroke, currentPrompt,
                 isCapturing, rafId, pendingXY, lastScreen, lastScaleBarLength,
                 listeners>>

MsgDrawingModeChange(mode) ==
  /\ activeMode' = mode
  /\ promptMode' = "null"
  /\ Msg("drawing_mode_change", <<>>)
  /\ UNCHANGED <<promptPolarity, strokeColor, brushPhysicalSize, isEraser,
                 gestureVars, lockVars, navVars, pluginVars, hLock, hPlugin, hPrompts>>

MsgPromptModeChange_keepActive(mode, polarity) ==
  /\ promptMode' = mode
  /\ promptPolarity' = polarity
  /\ Msg("prompt_mode_change", <<>>)
  /\ UNCHANGED <<activeMode, strokeColor, brushPhysicalSize, isEraser,
                 gestureVars, lockVars, navVars, pluginVars, hLock, hPlugin, hPrompts>>

MsgPromptModeChange(mode, polarity) ==
  /\ promptMode' = mode
  /\ promptPolarity' = polarity
  /\ activeMode' = "null"
  /\ Msg("prompt_mode_change", <<>>)
  /\ UNCHANGED <<strokeColor, brushPhysicalSize, isEraser,
                 gestureVars, lockVars, navVars, pluginVars, hLock, hPlugin, hPrompts>>

MsgDrawingSizeChange(size) ==
  /\ brushPhysicalSize' = size
  /\ Msg("drawing_size_change", <<>>)
  /\ UNCHANGED <<activeMode, promptMode, promptPolarity, strokeColor, isEraser,
                 gestureVars, lockVars, navVars, pluginVars, hLock, hPlugin, hPrompts>>

MsgDrawingColorChange(color) ==
  /\ strokeColor' = color
  /\ Msg("drawing_color_change", <<>>)
  /\ UNCHANGED <<activeMode, promptMode, promptPolarity, brushPhysicalSize,
                 isEraser, gestureVars, lockVars, navVars, pluginVars,
                 hLock, hPlugin, hPrompts>>

MsgEraserModeChange(b) ==
  /\ isEraser' = b
  /\ Msg("eraser_mode_change", <<>>)
  /\ UNCHANGED <<activeMode, promptMode, promptPolarity, strokeColor,
                 brushPhysicalSize, gestureVars, lockVars, navVars, pluginVars,
                 hLock, hPlugin, hPrompts>>

MsgAnnotationReset_popLast(type) ==
  /\ type \in {"annotation_undo", "annotation_clear"}
  /\ strokeData' = SubSeq(strokeData, 1, Len(strokeData) - 1)
  /\ Msg(type, <<sendAnnotationStateUpdate(Len(strokeData'))>>)
  /\ UNCHANGED <<toolVars, promptData, gestureRest, lockVars, navVars,
                 pluginVars, hLock, hPlugin, hPrompts>>

\* annotation_undo and annotation_clear have the same body.
MsgAnnotationReset(type) ==
  /\ type \in {"annotation_undo", "annotation_clear"}
  /\ strokeData' = <<>>
  /\ Msg(type, <<sendAnnotationStateUpdate(0)>>)
  /\ UNCHANGED <<toolVars, promptData, gestureRest, lockVars, navVars,
                 pluginVars, hLock, hPlugin, hPrompts>>

MsgAnnotationRedo ==
  /\ Msg("annotation_redo", <<sendAnnotationStateUpdate(Len(strokeData))>>)
  /\ UNCHANGED <<toolVars, gestureVars, lockVars, navVars, pluginVars,
                 hLock, hPlugin, hPrompts>>

MsgAnnotationStateSync(strokeCount) ==
  /\ strokeData' = IF strokeCount = 0 THEN <<>> ELSE strokeData
  /\ Msg("annotation_state_sync", <<sendAnnotationStateUpdate(Len(strokeData'))>>)
  /\ UNCHANGED <<toolVars, promptData, gestureRest, lockVars, navVars,
                 pluginVars, hLock, hPlugin, hPrompts>>

MsgDrawingClear_alsoPrompts ==
  /\ strokeData' = <<>>
  /\ promptData' = <<>>
  /\ Msg("drawing_clear", <<>>)
  /\ UNCHANGED <<toolVars, gestureRest, lockVars, navVars,
                 pluginVars, hLock, hPlugin, hPrompts>>

MsgDrawingClear ==
  /\ strokeData' = <<>>
  /\ Msg("drawing_clear", <<>>)
  /\ UNCHANGED <<toolVars, promptData, gestureRest, lockVars, navVars,
                 pluginVars, hLock, hPlugin, hPrompts>>

promptClear_keep(pd) == pd

promptClear(pd) == <<>>

MsgPromptClear ==
  /\ promptData' = promptClear(promptData)
  /\ hPrompts' = <<>>
  /\ Msg("prompt_clear", <<>>)
  /\ UNCHANGED <<toolVars, strokeData, gestureRest, lockVars, navVars,
                 pluginVars, hLock, hPlugin>>

\* -------------------------------------------------------------- snapshot
\* JSON.parse(JSON.stringify(v)) on a number: a non-finite number becomes
\* null, for which JsonNull stands.
JsonNull == -998
jsonNumber(v) == IF isFinite(v) THEN v ELSE JsonNull

jsonPoint(p) == [x |-> jsonNumber(p.x), y |-> jsonNumber(p.y), z |-> jsonNumber(p.z)]

\* JSON.parse(JSON.stringify(strokeData)): a deep copy, strings and null
\* kept, numbers through jsonNumber.
jsonClone(strokes) ==
  [i \in 1..Len(strokes) |->
     [mode |-> strokes[i].mode, color |-> strokes[i].color,
      physicalSize |-> jsonNumber(strokes[i].physicalSize),
      voxelSizes |-> IF strokes[i].voxelSizes = Null THEN Null
                     ELSE Some([k \in 1..Len(Val(strokes[i].voxelSizes)) |->
                                  jsonNumber(Val(strokes[i].voxelSizes)[k])]),
      points |-> [k \in 1..Len(strokes[i].points) |->
                    jsonPoint(strokes[i].points[k])]]]

\* drawing_snapshot: canvas.toBlob(callback) is called; the callback runs
\* later.
MsgDrawingSnapshot ==
  /\ hSnap.requested < MaxSnapshots
  /\ pendingBlobs' = pendingBlobs + 1
  /\ hSnap' = [hSnap EXCEPT !.requested = @ + 1]
  /\ ev' = Ev("none")
  /\ outbox' = <<>>
  /\ UNCHANGED <<coordinateSpace, toolVars, gestureVars, lockVars, navVars,
                 pluginVars, pendingReaders, hGesture, hLock, hPlugin, hPrompts>>

\* The toBlob callback, with a blob (hasBlob) or with null: with a blob it
\* starts a FileReader, whose onloadend runs later.
ToBlobCallback_noNullTest(hasBlob) ==
  /\ pendingBlobs > 0
  /\ pendingBlobs' = pendingBlobs - 1
  /\ pendingReaders' = pendingReaders + 1
  /\ hSnap' = IF hasBlob THEN hSnap ELSE [hSnap EXCEPT !.failed = @ + 1]
  /\ ev' = Ev("none")
  /\ outbox' = <<>>
  /\ UNCHANGED <<coordinateSpace, toolVars, gestureVars, lockVars, navVars,
                 pluginVars, hGesture, hLock, hPlugin, hPrompts>>

ToBlobCallback(hasBlob) ==
  /\ pendingBlobs > 0
  /\ pendingBlobs' = pendingBlobs - 1
  /\ pendingReaders' = IF hasBlob THEN pendingReaders + 1 ELSE pendingReaders
  /\ hSnap' = IF hasBlob THEN hSnap ELSE [hSnap EXCEPT !.failed = @ + 1]
  /\ ev' = Ev("none")
  /\ outbox' = <<>>
  /\ UNCHANGED <<coordinateSpace, toolVars, gestureVars, lockVars, navVars,
                 pluginVars, hGesture, hLock, hPlugin, hPrompts>>

snapshotRest_keep(sd) == sd

\* strokeData.length = 0
snapshotRest(sd) == <<>>

\* reader.onloadend: posts the snapshot with a copy of strokeData, then
\* empties strokeData.
ReaderLoadEnd ==
  /\ pendingReaders > 0
  /\ pendingReaders' = pendingReaders - 1
  /\ outbox' = <<[type |-> "drawing_snapshot_created",
                  strokes |-> jsonClone(strokeData)]>>
  /\ strokeData' = snapshotRest(strokeData)
  /\ hSnap' = [hSnap EXCEPT !.created = @ + 1]
  /\ ev' = Ev("none")
  /\ UNCHANGED <<coordinateSpace, toolVars, promptData, gestureRest, lockVars,
                 navVars, pluginVars, pendingBlobs, hGesture, hLock, hPlugin,
                 hPrompts>>

\* ----------------------------------------------------------- locked view
\* new Float32Array(values): each number rounded to the nearest float32
\* (24-bit significand, ties to even).  Integers of magnitude up to 2^25.
toFloat32(v) ==
  IF v = NaN THEN NaN
  ELSE LET a == IF v < 0 THEN 0 - v ELSE v
           r == IF a <= 2^24 \/ a % 2 = 0 THEN a
                ELSE IF ((a + 1) \div 2) % 2 = 0 THEN a + 1 ELSE a - 1
       IN IF v < 0 THEN 0 - r ELSE r

Float32Array(arr) == [i \in 1..Len(arr) |-> toFloat32(arr[i])]

\* The navigation states <<position, zoomFactor>> the host viewer moves
\* between.  navigationState.position.value is itself a Float32Array: every
\* entry is a float32 value.
NavStates == {<<<<0, 0, 0>>, 1>>, <<<<1, 1, 2^24 + 2>>, 2>>}
BBox1 == [x_start |-> 0, x_end |-> 2, y_start |-> 0, y_end |-> 2,
          z_start |-> 0, z_end |-> 1]
BBoxInputs == {Null, Some(BBox1)}

\* Navigation by the host viewer (pan, zoom, slice change).
NavChange(pos, zoom) ==
  /\ navPosition' = pos
  /\ navZoom' = zoom
  /\ ev' = Ev("none")
  /\ outbox' = <<>>
  /\ UNCHANGED <<coordinateSpace, snapVars, toolVars, gestureVars, lockVars, pluginVars,
                 hGesture, hLock, hPlugin, hPrompts>>

storeLockedPosition_once(pos) ==
  IF lockedPosition # Null THEN lockedPosition ELSE Some(Float32Array(pos))

storeLockedPosition(pos) == Some(Float32Array(pos))

\* bbox is event.data.bbox ?? null
MsgViewLocked(bbox) ==
  /\ lockedBBox' = bbox
  /\ lockedPosition' = storeLockedPosition(navPosition)
  /\ lockedZoomFactor' = Some(navZoom)
  /\ hLock' = [phase |-> "locked", position |-> navPosition, zoom |-> navZoom,
               reset |-> FALSE]
  /\ Msg("view_locked", <<>>)
  /\ UNCHANGED <<toolVars, gestureVars, navVars, pluginVars, hPlugin, hPrompts>>

unlockedZoom_kept == lockedZoomFactor

unlockedZoom == Null

MsgViewUnlocked ==
  /\ lockedBBox' = Null
  /\ lockedPosition' = Null
  /\ lockedZoomFactor' = unlockedZoom
  /\ hLock' = [hLock EXCEPT !.phase = "unlocked", !.reset = FALSE]
  /\ Msg("view_unlocked", <<>>)
  /\ UNCHANGED <<toolVars, gestureVars, navVars, pluginVars, hPlugin, hPrompts>>

MsgResetToLockedView ==
  /\ navPosition' = IF lockedPosition # Null
                    THEN Float32Array(Val(lockedPosition)) ELSE navPosition
  /\ navZoom' = IF lockedZoomFactor # Null THEN Val(lockedZoomFactor) ELSE navZoom
  /\ hLock' = [hLock EXCEPT !.reset = TRUE]
  /\ Msg("reset_to_locked_view", <<>>)
  /\ UNCHANGED <<toolVars, gestureVars, lockVars, pluginVars, hPlugin, hPrompts>>

\* ------------------------------------------------------------- keyboard
Keys == {"s", "S", "d", "D", "k", "K", "z", "a", "A", "b",
         "ArrowUp", "ArrowDown", "ArrowLeft", "ArrowRight", "PageUp", "PageDown",
         "Home"}
\* Modifier combinations <<ctrlKey, metaKey, altKey, shiftKey>>.
Modifiers == {<<FALSE, FALSE, FALSE, FALSE>>, <<TRUE, FALSE, FALSE, FALSE>>,
              <<FALSE, TRUE, FALSE, FALSE>>, <<FALSE, FALSE, TRUE, FALSE>>,
              <<FALSE, FALSE, FALSE, TRUE>>, <<TRUE, FALSE, FALSE, TRUE>>,
              <<FALSE, TRUE, FALSE, TRUE>>, <<TRUE, FALSE, TRUE, FALSE>>}

\* String.prototype.toLowerCase on the key names and shortcut strings used.
toLowerCase(k) ==
  CASE k = "S" -> "s" [] k = "D" -> "d" [] k = "K" -> "k" [] k = "Z" -> "z"
    [] k = "A" -> "a" [] k = "B" -> "b"
    [] k = "ArrowUp" -> "arrowup" [] k = "ArrowDown" -> "arrowdown"
    [] k = "ArrowLeft" -> "arrowleft" [] k = "ArrowRight" -> "arrowright"
    [] k = "PageUp" -> "pageup" [] k = "PageDown" -> "pagedown"
    [] k = "Home" -> "home"
    [] OTHER -> k

navKeys_short == {"ArrowUp", "ArrowDown", "ArrowLeft", "ArrowRight", "PageUp"}

navKeys == {"ArrowUp", "ArrowDown", "ArrowLeft", "ArrowRight", "PageUp", "PageDown"}

\* The locked-view keydown listener of the container: does it block?
lockKeyDownBlocks(key, target) ==
  /\ lockedBBox # Null
  /\ key \in navKeys
  /\ isOnDataPanel(target)

\* portalShortcuts[key]; "" stands for undefined.
portalShortcuts_noCheatsheet(key) ==
  CASE key = "s" -> "portal-save-scene"
    [] key = "d" -> "portal-download-roi"
    [] OTHER -> ""

portalShortcuts(key) ==
  CASE key = "s" -> "portal-save-scene"
    [] key = "d" -> "portal-download-roi"
    [] key = "k" -> "portal-show-cheatsheet"
    [] OTHER -> ""

\* The capture-phase keydown listener of the document: the messages it
\* posts; it prevents the event and stops it at once iff it posts one.
docKeyDown(k, ctrl, meta, alt, shift) ==
  LET ctrlOrCmd == ctrl \/ meta
      key == toLowerCase(k)
  IN IF ctrlOrCmd /\ portalShortcuts(key) # ""
     THEN <<[type |-> "portal_action", action |-> portalShortcuts(key)]>>
     ELSE IF activePluginId # "null" /\ ctrlOrCmd /\ key = "z"
     THEN <<[type |-> "plugin_shortcut",
             key |-> IF shift THEN (IF meta THEN "cmd+shift+z" ELSE "ctrl+shift+z")
                     ELSE (IF meta THEN "cmd+z" ELSE "ctrl+z"),
             pluginId |-> activePluginId]>>
     ELSE IF activePluginId # "null" /\ ~ctrlOrCmd /\ ~alt /\ key \in activePluginKeys
     THEN <<[type |-> "plugin_shortcut", key |-> key, pluginId |-> activePluginId]>>
     ELSE <<>>

KeyTargets == Targets \cup {"outside"}

\* A keydown: the document listener runs first (capture phase); unless it
\* stopped the event at once, and the target is inside the container, the
\* container's locked-view listener runs next.
KeyDown(k, ctrl, meta, alt, shift, target) ==
  LET out == docKeyDown(k, ctrl, meta, alt, shift)
      doc == out # <<>>
      blk == ~doc /\ target # "outside" /\ lockKeyDownBlocks(k, target)
  IN /\ outbox' = out
     /\ ev' = [Ev("keydown") EXCEPT !.key = k, !.ctrl = ctrl, !.meta = meta,
                 !.alt = alt, !.shift = shift, !.target = target,
                 !.prevented = doc \/ blk, !.stopped = doc \/ blk,
                 !.byKeys = doc, !.byLock = blk,
                 !.ran = IF doc \/ target = "outside" THEN <<"documentKeyDown">>
                         ELSE <<"documentKeyDown", "lockedKeyDown">>]
     /\ UNCHANGED <<coordinateSpace, snapVars, toolVars, gestureVars, lockVars, navVars,
                    pluginVars, hGesture, hLock, hPlugin, hPrompts>>

PluginIds == {"segment", "trace"}
ShortcutLists == {<<>>, <<"a">>, <<"A", "s">>, <<"b", "ArrowUp">>}

SeqToSet(q) == {q[i] : i \in 1..Len(q)}

pluginKeys_merged(shortcuts) ==
  activePluginKeys \cup {toLowerCase(k) : k \in SeqToSet(shortcuts)}

pluginKeys(shortcuts) == {toLowerCase(k) : k \in SeqToSet(shortcuts)}

\* activatePluginBindings(event.data.pluginId, event.data.shortcuts ?? [])
MsgPluginActivated(pluginId, shortcuts) ==
  /\ activePluginId' = pluginId
  /\ activePluginKeys' = pluginKeys(shortcuts)
  /\ hPlugin' = [phase |-> "active", pluginId |-> pluginId, shortcuts |-> shortcuts]
  /\ Msg("plugin_activated", <<>>)
  /\ UNCHANGED <<toolVars, gestureVars, lockVars, navVars, hLock, hPrompts>>

\* deactivatePluginBindings()
MsgPluginDeactivated ==
  /\ activePluginId' = "null"
  /\ activePluginKeys' = {}
  /\ hPlugin' = [phase |-> "inactive", pluginId |-> "null", shortcuts |-> <<>>]
  /\ Msg("plugin_deactivated", <<>>)
  /\ UNCHANGED <<toolVars, gestureVars, lockVars, navVars, hLock, hPrompts>>

\* ---------------------------------------------------------------- Init
\* The state after setupDrawingToolMessageHandler returns, for a viewer
\* whose coordinate space is one of css.
InitWith(css) ==
  /\ coordinateSpace \in css
  /\ activeMode = "null"
  /\ promptMode = "null"
  /\ promptPolarity = "positive"
  /\ strokeColor = "#ff0000"
  /\ brushPhysicalSize = 8
  /\ isEraser = FALSE
  /\ isDrawing = FALSE
  /\ startXY = <<0, 0>>
  /\ snapshot = FALSE
  /\ strokeData = <<>>
  /\ promptData = <<>>
  /\ currentStroke = Null
  /\ currentPrompt = Null
  /\ isCapturing = FALSE
  /\ rafId = FALSE
  /\ pendingXY = Null
  /\ lastScreen = NaNXY
  /\ lastScaleBarLength = Null
  /\ listeners = 0
  /\ lockedBBox = Null
  /\ lockedPosition = Null
  /\ lockedZoomFactor = Null
  /\ navPosition = <<0, 0, 0>>
  /\ navZoom = 1
  /\ activePluginId = "null"
  /\ activePluginKeys = {}
  /\ pendingBlobs = 0
  /\ pendingReaders = 0
  /\ hSnap = [requested |-> 0, failed |-> 0, created |-> 0]
  /\ ev = Ev("none")
  /\ outbox = <<>>
  /\ hGesture = NoGesture
  /\ hLock = [phase |-> "init", position |-> <<>>, zoom |-> 0, reset |-> FALSE]
  /\ hPlugin = [phase |-> "none", pluginId |-> "null", shortcuts |-> <<>>]
  /\ hPrompts = <<>>

Init == InitWith({CS_xyz})

InBounds3 == {<<0, 0, 0>>, <<1, 1, 0>>}
OutOfBounds3 == {<<0, 5, 0>>}

\* ---------------------------------------------------------------- Spec
\* Brush gestures: left and right mouse buttons, mouse moves and animation
\* frames over a slice panel in brush and eraser mode, with the parent's
\* mode, colour, size and drawing_clear messages arriving at any moment.
Next ==
  \/ \E b \in {0, 2}, p \in InBounds3 \cup OutOfBounds3 :
       MouseDown(b, "slice", p, <<0, 0>>, Some(<<1, 1, 1>>), Null)
  \/ \E p \in InBounds3 \cup OutOfBounds3 : MouseMove("slice", p, <<0, 0>>)
  \/ MouseUp
  \/ DrawStep
  \/ \E m \in DrawingModes : MsgDrawingModeChange(m)
  \/ MsgPromptModeChange("null", "positive")
  \/ \E s \in Sizes : MsgDrawingSizeChange(s)
  \/ \E col \in Colors : MsgDrawingColorChange(col)
  \/ MsgDrawingClear

Spec == Init /\ [][Next]_vars

\* ====================================================== properties
MsgsOfType(out, t) == SelectSeq(out, LAMBDA m : m.type = t)

PointNeq(a, b) ==
  StrictNeq(a.x, b.x) \/ StrictNeq(a.y, b.y) \/ StrictNeq(a.z, b.z)

NoRepeat(pts) == \A i \in 1..(Len(pts) - 1) : PointNeq(pts[i], pts[i + 1])

C2_PointPromptRecorded ==
  [][ (MouseUp /\ hGesture.kind = "point" /\ isValidPoint(hGesture.first)) =>
        /\ promptData' = Append(promptData,
                                [mode |-> "point", point |-> hGesture.first,
                                 polarity |-> hGesture.polarity])
        /\ Len(MsgsOfType(outbox', "prompt_complete")) = 1 ]_vars

\* ---------------------------------------------------------- SpecPrompt
\* Prompt gestures: mouse events and animation frames in the four prompt
\* modes with both polarities, and the parent's prompt_clear.  One mouse
\* position inside the data and one outside.
NextPrompt ==
  \/ \E b \in {0, 2}, p \in {<<0, 0, 0>>} \cup OutOfBounds3 :
       MouseDown(b, "slice", p, <<0, 0>>, Null, Null)
  \/ \E p \in {<<0, 0, 0>>} \cup OutOfBounds3 : MouseMove("slice", p, <<0, 0>>)
  \/ MouseUp
  \/ DrawStep
  \/ \E m \in PromptModes, pol \in Polarities : MsgPromptModeChange(m, pol)
  \/ MsgPromptClear

SpecPrompt == Init /\ [][NextPrompt]_vars

NextBounds ==
  \/ \E p \in MousePositions(coordinateSpace) :
       MouseDown(0, "slice", p, <<0, 0>>, Null, Null)
  \/ \E p \in MousePositions(coordinateSpace) : MouseMove("slice", p, <<0, 0>>)
  \/ MouseUp
  \/ DrawStep
  \/ MsgDrawingModeChange("brush")
  \/ MsgPromptModeChange("bbox", "positive")

SpecBounds == InitWith(CoordSpaces) /\ [][NextBounds]_vars

\* The dimension of cs that voxelPoint reads the named axis from.
AxisDim(cs, axis) ==
  IF /\ indexOf(cs.names, "x") > 0
     /\ indexOf(cs.names, "y") > 0
     /\ indexOf(cs.names, "z") > 0
  THEN indexOf(cs.names, axis)
  ELSE CASE axis = "x" -> 1 [] axis = "y" -> 2 [] axis = "z" -> 3

InVolume(v, cs, axis) ==
  /\ isFinite(v)
  /\ Ge(v, cs.lowerBounds[AxisDim(cs, axis)])
  /\ Lt(v, cs.upperBounds[AxisDim(cs, axis)])

PointInVolume(p, cs) ==
  InVolume(p.x, cs, "x") /\ InVolume(p.y, cs, "y") /\ InVolume(p.z, cs, "z")

PromptPoints(pr) ==
  IF pr.mode = "point" THEN {pr.point}
  ELSE IF pr.mode = "bbox" THEN {pr.startPoint, pr.endPoint}
  ELSE SeqToSet(pr.points)

\* C4: every point of every committed stroke and every committed prompt has
\* finite x, y and z, each within [lowerBounds, upperBounds) of the
\* coordinate-space dimension it was read from.
C4_RecordedInVolume ==
  /\ \A i \in 1..Len(strokeData) :
       \A p \in SeqToSet(strokeData[i].points) : PointInVolume(p, coordinateSpace)
  /\ \A i \in 1..Len(promptData) :
       \A p \in PromptPoints(promptData[i]) : PointInVolume(p, coordinateSpace)

\* ------------------------------------------------------------ SpecLock
\* The locked view: view_locked / view_unlocked / reset_to_locked_view at
\* any moment, navigation by the host viewer, mousedowns of every button on
\* every kind of target inside and outside the data, keydowns of a
\* navigation key and of another key, with no mode, brush mode or bbox
\* prompt mode active.
NextLock ==
  \/ \E b \in Buttons, t \in Targets, p \in {<<0, 0, 0>>} \cup OutOfBounds3 :
       MouseDown(b, t, p, <<0, 0>>, Null, Null)
  \/ MouseUp
  \/ \E k \in {"ArrowUp", "Home"}, t \in {"slice", "other"} :
       KeyDown(k, FALSE, FALSE, FALSE, FALSE, t)
  \/ \E m \in {"null", "brush"} : MsgDrawingModeChange(m)
  \/ MsgPromptModeChange("bbox", "positive")
  \/ \E b \in BBoxInputs : MsgViewLocked(b)
  \/ MsgViewUnlocked
  \/ MsgResetToLockedView
  \/ \E n \in NavStates : NavChange(n[1], n[2])

SpecLock == Init /\ [][NextLock]_vars

\* C5: while lockedBBox is non-null, a mousedown on a slice-view panel is
\* either taken by the drawing tool as a gesture start or prevented with its
\* propagation stopped, whatever the button and the mode.
C5_LockedMouseDownBlocked ==
  (ev.kind = "mousedown" /\ lockedBBox # Null /\ ev.target = "slice") =>
     ev.byTool \/ (ev.prevented /\ ev.stopped)

\* C7: while the last lock message is a view_locked, reset_to_locked_view
\* sets the navigation position and the zoom factor to the values they had
\* when that view_locked was handled.
C7_ResetRestoresLockedView ==
  [][ (MsgResetToLockedView /\ hLock.phase = "locked") =>
        /\ navPosition' = hLock.position
        /\ navZoom' = hLock.zoom ]_vars

\* The view was locked at a position and zoom other than the initial ones,
\* a reset_to_locked_view was handled since, and the navigation state is the
\* one of the lock; lockedBBox is null (view_locked without a bbox).
C7_Witness ==
  /\ hLock.phase = "locked"
  /\ hLock.reset
  /\ hLock.position = <<1, 1, 2^24 + 2>>
  /\ hLock.zoom = 2
  /\ navPosition = hLock.position
  /\ navZoom = hLock.zoom
  /\ lockedBBox = Null

\* C8: from a view_unlocked until the next view_locked, lockedBBox,
\* lockedPosition and lockedZoomFactor are null, the lock listeners block no
\* mousedown and no keydown, and reset_to_locked_view leaves the navigation
\* position and zoom as they are.
C8_UnlockEndsLock ==
  /\ [](hLock.phase = "unlocked" =>
          /\ lockedBBox = Null
          /\ lockedPosition = Null
          /\ lockedZoomFactor = Null
          /\ ~ev.byLock)
  /\ [][ (MsgResetToLockedView /\ hLock.phase = "unlocked") =>
           UNCHANGED navVars ]_vars

\* After a lock and an unlock, away from the locked position and zoom, a
\* reset_to_locked_view was handled and then a right-button mousedown on a
\* slice panel went through unblocked.
C8_Witness ==
  /\ hLock.phase = "unlocked"
  /\ hLock.reset
  /\ navPosition # hLock.position
  /\ navZoom # hLock.zoom
  /\ ev.kind = "mousedown"
  /\ ev.button = 2
  /\ ev.target = "slice"
  /\ ~ev.prevented

\* --------------------------------------------------------- SpecNavKeys
\* Keyboard navigation: keydowns of the six navigation keys and of three
\* other keys, plain or with Ctrl, on every kind of target, the view locked and
\* unlocked, a plugin that registered ArrowUp activated and deactivated.
NextNavKeys ==
  \/ \E k \in Keys \ {"S", "d", "D", "k", "K", "z", "a", "A"},
        ctrl \in BOOLEAN, t \in KeyTargets :
       KeyDown(k, ctrl, FALSE, FALSE, FALSE, t)
  \/ \E b \in BBoxInputs : MsgViewLocked(b)
  \/ MsgViewUnlocked
  \/ MsgPluginActivated("trace", <<"b", "ArrowUp">>)
  \/ MsgPluginDeactivated

SpecNavKeys == Init /\ [][NextNavKeys]_vars

\* C6: while the view is locked, a keydown of one of the six navigation keys
\* whose target is inside a rendered data panel ends up prevented and
\* stopped; when the view is not locked or the key is another one, the
\* locked-view keydown listener does nothing to the event.
C6_LockedKeysBlocked ==
  LET six == {"ArrowUp", "ArrowDown", "ArrowLeft", "ArrowRight",
              "PageUp", "PageDown"}
  IN ev.kind = "keydown" =>
       /\ (lockedBBox # Null /\ ev.key \in six /\ ev.target \in {"slice", "persp"})
            => (ev.prevented /\ ev.stopped)
       /\ (lockedBBox = Null \/ ev.key \notin six) => ~ev.byLock

\* PageDown on the perspective panel was blocked by the locked-view listener.
C6_Witness ==
  /\ ev.kind = "keydown"
  /\ ev.key = "PageDown"
  /\ ev.target = "persp"
  /\ lockedBBox # Null
  /\ ev.byLock
  /\ ev.prevented

\* ------------------------------------------------------------ SpecKeys
\* Shortcuts: keydowns of every key of Keys with every combination of
\* Modifiers, inside and outside the viewer container, plugins activated and
\* deactivated with every shortcut list.
NextKeys ==
  \/ \E k \in Keys, m \in Modifiers, t \in {"slice", "outside"} :
       KeyDown(k, m[1], m[2], m[3], m[4], t)
  \/ \E id \in PluginIds, sc \in ShortcutLists : MsgPluginActivated(id, sc)
  \/ MsgPluginDeactivated

SpecKeys == Init /\ [][NextKeys]_vars

\* C9: a keydown of S, D or K in either case with Ctrl or Cmd held is
\* prevented and stopped and posts exactly one message, the portal_action of
\* that key, and no plugin_shortcut, whatever plugin is active and whatever
\* keys it registered.
C9_PortalShortcuts ==
  (ev.kind = "keydown" /\ (ev.ctrl \/ ev.meta)
     /\ ev.key \in {"s", "S", "d", "D", "k", "K"}) =>
    /\ ev.prevented
    /\ ev.stopped
    /\ outbox = << [type |-> "portal_action",
                    action |-> CASE ev.key \in {"s", "S"} -> "portal-save-scene"
                                 [] ev.key \in {"d", "D"} -> "portal-download-roi"
                                 [] ev.key \in {"k", "K"} -> "portal-show-cheatsheet"] >>

\* Cmd+K while a plugin that registered "s" is active.
C9_Witness ==
  /\ ev.kind = "keydown"
  /\ ev.key = "K"
  /\ ev.meta
  /\ activePluginId # "null"
  /\ "s" \in activePluginKeys
  /\ Len(outbox) = 1
  /\ outbox[1].type = "portal_action"

\* The plugin_shortcut messages of the last step.
Shortcuts == MsgsOfType(outbox, "plugin_shortcut")

PlainKey == ~ev.ctrl /\ ~ev.meta /\ ~ev.alt

\* C10 as stated: a plugin_shortcut is posted only while the last plugin
\* message is a plugin_activated, carries that message's pluginId, and for a
\* plain key only if the lower-cased key is in that message's shortcut list.
C10_AsStated ==
  \A i \in 1..Len(Shortcuts) :
    /\ hPlugin.phase = "active"
    /\ Shortcuts[i].pluginId = hPlugin.pluginId
    /\ PlainKey => toLowerCase(ev.key) \in SeqToSet(hPlugin.shortcuts)

\* C10: a plugin_shortcut is posted only while the last plugin message is a
\* plugin_activated, carries that message's pluginId, and for a plain key
\* only if the lower-cased key is among the lower-cased entries of that
\* message's shortcut list.
C10_PluginShortcutScoping ==
  \A i \in 1..Len(Shortcuts) :
    /\ hPlugin.phase = "active"
    /\ Shortcuts[i].pluginId = hPlugin.pluginId
    /\ PlainKey =>
         toLowerCase(ev.key) \in {toLowerCase(k) : k \in SeqToSet(hPlugin.shortcuts)}

\* The plain key "b" posted a plugin_shortcut for the plugin "trace".
C10_Witness ==
  /\ ev.kind = "keydown"
  /\ ev.key = "b"
  /\ PlainKey
  /\ Len(Shortcuts) = 1
  /\ Shortcuts[1].pluginId = "trace"
  /\ hPlugin.pluginId = "trace"

\* ----------------------------------------------------------- SpecModes
\* The tool settings: every mode, polarity, colour, size and eraser
\* message of the parent, in any order.
NextModes ==
  \/ \E m \in DrawingModes : MsgDrawingModeChange(m)
  \/ \E m \in PromptModes, pol \in Polarities : MsgPromptModeChange(m, pol)
  \/ \E s \in Sizes : MsgDrawingSizeChange(s)
  \/ \E col \in Colors : MsgDrawingColorChange(col)
  \/ \E b \in BOOLEAN : MsgEraserModeChange(b)

SpecModes == Init /\ [][NextModes]_vars

\* C11: at most one of activeMode and promptMode is non-null, after any
\* sequence of drawing_mode_change and prompt_mode_change messages.
C11_ModesExclusive == activeMode = "null" \/ promptMode = "null"

\* Eraser mode set after a prompt_mode_change (the polarity is no longer the
\* initial one).
C11_Witness ==
  /\ activeMode = "eraser"
  /\ promptMode = "null"
  /\ promptPolarity = "negative"

\* Position of a listener in the order the last event's listeners ran.
RanAt(name) == CHOOSE i \in 1..Len(ev.ran) : ev.ran[i] = name

\* C12: when the view is locked and a mousedown arrives on the container,
\* the locked-view mousedown listener runs before onMouseDown.
C12_LockListenerFirst ==
  (ev.kind = "mousedown" /\ lockedBBox # Null) =>
     RanAt("lockedMouseDown") < RanAt("onMouseDown")

\* A mousedown the claim calls rejected: no mode active, or a button other
\* than the left one, or a target outside the rendered data panels, or a
\* mouse position whose x, y or z is outside the data bounds.
Rejected(button, target, pos) ==
  \/ (activeMode = "null" /\ promptMode = "null")
  \/ button # 0
  \/ target \notin {"slice", "persp"}
  \/ ~PointInVolume(voxelPoint(pos, coordinateSpace), coordinateSpace)

\* What a mousedown without effect leaves alone.
NoGestureEffect ==
  /\ UNCHANGED <<isCapturing, currentStroke, currentPrompt, strokeData,
                 promptData, isDrawing, listeners>>
  /\ outbox' = <<>>
  /\ ~ev'.byTool

\* C13: a rejected mousedown leaves isCapturing, currentStroke,
\* currentPrompt, strokeData, promptData and isDrawing unchanged, registers
\* no listener, posts no message and is not prevented or stopped by
\* onMouseDown.
C13_RejectedMouseDownNoEffect ==
  [][ \A b \in Buttons, t \in Targets, p \in MousePositions(coordinateSpace) :
        (MouseDown(b, t, p, <<0, 0>>, Null, Null) /\ Rejected(b, t, p))
           => NoGestureEffect ]_vars

\* The same restricted to a rank-3 x, y, z space, where isInDataBounds
\* and the data bounds agree.
RejectedMouseDownNoEffect_Rank3 ==
  [][ \A b \in Buttons, t \in Targets, p \in {<<0, 0, 0>>} \cup OutOfBounds3 :
        (MouseDown(b, t, p, <<0, 0>>, Null, Null) /\ Rejected(b, t, p))
           => NoGestureEffect ]_vars

\* --------------------------------------------------------- SpecGesture
\* Gestures in brush, point and bbox mode with the mode changing at any
\* moment: left mousedowns inside and outside the data (a second one may
\* arrive before any mouseup), mousemoves on and off the data panels and
\* inside and outside the data, mouseups, animation frames, and the
\* parent's clear messages.
NextGesture ==
  \/ \E p \in {<<0, 0, 0>>} \cup OutOfBounds3 :
       MouseDown(0, "slice", p, <<0, 0>>, Null, Null)
  \/ \E t \in {"slice", "other"}, p \in InBounds3 \cup OutOfBounds3 :
       MouseMove(t, p, <<0, 0>>)
  \/ MouseUp
  \/ DrawStep
  \/ MsgDrawingModeChange("brush")
  \/ \E m \in {"point", "bbox"} : MsgPromptModeChange(m, "positive")
  \/ MsgDrawingClear
  \/ MsgPromptClear

SpecGesture == Init /\ [][NextGesture]_vars

\* A mousemove the claim calls off the data: its target is outside the
\* rendered data panels or the x, y or z of the mouse position is outside
\* the data bounds.
OffData(target, pos) ==
  \/ target \notin {"slice", "persp"}
  \/ ~PointInVolume(voxelPoint(pos, coordinateSpace), coordinateSpace)

\* A gesture that is paused, not ended: nothing recorded, no frame pending,
\* the listeners and the stroke or prompt in progress kept.
GesturePaused ==
  /\ UNCHANGED <<currentStroke, currentPrompt, listeners, isCapturing,
                 strokeData, promptData>>
  /\ ~rafId'
  /\ pendingXY' = Null

\* C14: during a capture with a stroke or prompt in progress, a mousemove
\* that is off the data panels or outside the data bounds records no point,
\* leaves no animation frame pending, clears pendingXY and keeps the
\* listeners and the stroke or prompt in progress.
C14_LeavingDataPauses ==
  [][ \A t \in Targets, p \in MousePositions(coordinateSpace) :
        ( /\ MouseMove(t, p, <<0, 0>>)
          /\ isCapturing
          /\ (currentStroke # Null \/ currentPrompt # Null)
          /\ OffData(t, p) ) => GesturePaused ]_vars

\* The same restricted to a rank-3 x, y, z space, together with what comes
\* after the pause: the mouseup commits the stroke in progress with the
\* points it holds.
LeavingDataPauses_Rank3 ==
  /\ [][ \A t \in Targets, p \in InBounds3 \cup OutOfBounds3 :
           ( /\ MouseMove(t, p, <<0, 0>>)
             /\ isCapturing
             /\ (currentStroke # Null \/ currentPrompt # Null)
             /\ OffData(t, p) ) => GesturePaused ]_vars
  /\ [][ (MouseUp /\ currentStroke # Null) =>
           /\ Len(strokeData') = Len(strokeData) + 1
           /\ strokeData'[Len(strokeData')].points = Val(currentStroke).points ]_vars

\* C15: at most one of currentStroke and currentPrompt is non-null, and the
\* messages of one step hold at most one completion message
\* (drawing_stroke_complete or prompt_complete).
C15_SingleGestureInProgress ==
  /\ currentStroke = Null \/ currentPrompt = Null
  /\ Len(MsgsOfType(outbox, "drawing_stroke_complete"))
       + Len(MsgsOfType(outbox, "prompt_complete")) <= 1

\* C16: isCapturing and isDrawing are true only while gesture listeners
\* are registered on window, and right after a mouseup both are false.
C16_CaptureFlagsTrackGesture ==
  /\ (isCapturing \/ isDrawing) => listeners > 0
  /\ ev.kind = "mouseup" => (~isCapturing /\ ~isDrawing)

IsPrefix(a, b) == Len(a) <= Len(b) /\ SubSeq(b, 1, Len(a)) = a

\* The stroke in progress after a step is the one before it, possibly with
\* more points.
SameStroke(old, new) ==
  /\ new.color = old.color
  /\ new.physicalSize = old.physicalSize
  /\ new.voxelSizes = old.voxelSizes
  /\ IsPrefix(old.points, new.points)

\* C17: a stroke in progress is never dropped: every step either keeps it
\* (possibly adding points) or pushes it to strokeData and posts a
\* drawing_stroke_complete with its points, also when a second accepted
\* mousedown arrives before any mouseup.
C17_NoStrokeLost ==
  [][ currentStroke # Null =>
        \/ /\ currentStroke' # Null
           /\ SameStroke(Val(currentStroke), Val(currentStroke'))
        \/ /\ currentStroke' = Null
           /\ strokeData' = Append(strokeData, Val(currentStroke))
           /\ \E i \in 1..Len(outbox') :
                /\ outbox'[i].type = "drawing_stroke_complete"
                /\ outbox'[i].stroke.points = Val(currentStroke).points ]_vars

\* C18: right after a mouseup no gesture listener registered by an earlier
\* mousedown remains on window, however many mousedowns came before it.
C18_ListenersRemoved == ev.kind = "mouseup" => listeners = 0

\* A mouseup that ran the onUp of two mousedowns.
C18_Witness ==
  /\ ev.kind = "mouseup"
  /\ Len(ev.ran) = 2
  /\ listeners = 0

\* -------------------------------------------------------- SpecSnapshot
\* Snapshots: brush strokes drawn and committed, drawing_snapshot requests
\* (MaxSnapshots of them in all), their toBlob callbacks with a blob or with
\* null and their FileReader completions, and the parent's clear, undo and
\* sync messages, all interleaved in any order.
NextSnapshot ==
  \/ MouseDown(0, "slice", <<0, 0, 0>>, <<0, 0>>, Null, Null)
  \/ MouseMove("slice", <<1, 1, 0>>, <<0, 0>>)
  \/ MouseUp
  \/ \E m \in {"null", "brush"} : MsgDrawingModeChange(m)
  \/ MsgDrawingSnapshot
  \/ \E hasBlob \in BOOLEAN : ToBlobCallback(hasBlob)
  \/ ReaderLoadEnd
  \/ MsgDrawingClear
  \/ \E t \in {"annotation_undo", "annotation_clear"} : MsgAnnotationReset(t)
  \/ MsgAnnotationRedo
  \/ \E n \in {0, 1} : MsgAnnotationStateSync(n)

SpecSnapshot == Init /\ [][NextSnapshot]_vars

\* C19: a drawing_snapshot_created message is posted only when a FileReader
\* completes; it carries exactly the strokes strokeData holds at that
\* moment, and strokeData is empty right after.  A stroke enters strokeData
\* once, at its commit, so it is in the strokes of at most one such message.
C19_SnapshotDeliversOnce ==
  /\ [][ ReaderLoadEnd =>
           /\ outbox' = <<[type |-> "drawing_snapshot_created",
                           strokes |-> strokeData]>>
           /\ strokeData' = <<>> ]_vars
  /\ [][ MsgsOfType(outbox', "drawing_snapshot_created") # <<>> =>
           hSnap'.created = hSnap.created + 1 ]_vars

\* A snapshot with one stroke of two points was just posted while another
\* request is still in flight, and strokeData is empty.
C19_Witness ==
  /\ Len(outbox) = 1
  /\ outbox[1].type = "drawing_snapshot_created"
  /\ Len(outbox[1].strokes) = 1
  /\ Len(outbox[1].strokes[1].points) = 2
  /\ pendingBlobs + pendingReaders = 1
  /\ strokeData = <<>>

\* C20: a toBlob callback that gets a null blob posts nothing, starts no
\* FileReader and leaves strokeData as it is; each request ends in at most
\* one drawing_snapshot_created, and in none when its blob was null.
C20_NullBlobIsSilent ==
  /\ [](hSnap.created + hSnap.failed + pendingBlobs + pendingReaders
          = hSnap.requested)
  /\ [][ hSnap'.failed # hSnap.failed =>
           /\ outbox' = <<>>
           /\ UNCHANGED <<strokeData, promptData, currentStroke, pendingReaders>> ]_vars

\* Both requests got a null blob: nothing was posted and the committed
\* stroke is still in strokeData.
C20_Witness ==
  /\ hSnap.requested = 2
  /\ hSnap.failed = 2
  /\ hSnap.created = 0
  /\ Len(strokeData) = 1
  /\ outbox = <<>>

\* ----------------------------------------------------------- SpecClear
\* The messages that empty a list, at any moment of a session: brush
\* strokes (up to MaxUndoStrokes of them in strokeData) and bbox prompts
\* drawn and committed, the view locked and unlocked, and the parent's
\* drawing_clear, prompt_clear, annotation_undo, annotation_clear,
\* annotation_redo and annotation_state_sync messages, also in the middle
\* of a gesture.
NextClear ==
  \/ MouseDownUpTo(MaxUndoStrokes, 0, "slice", <<0, 0, 0>>, <<0, 0>>, Null, Null)
  \/ MouseMove("slice", <<1, 1, 0>>, <<0, 0>>)
  \/ MouseUp
  \/ MsgDrawingModeChange("brush")
  \/ MsgPromptModeChange("bbox", "positive")
  \/ MsgDrawingClear
  \/ MsgPromptClear
  \/ \E t \in {"annotation_undo", "annotation_clear"} : MsgAnnotationReset(t)
  \/ MsgAnnotationRedo
  \/ \E n \in {0, 1} : MsgAnnotationStateSync(n)
  \/ MsgViewLocked(Some(BBox1))
  \/ MsgViewUnlocked

SpecClear == Init /\ [][NextClear]_vars

\* The step handled a message of type t.
Handled(t) == ev'.kind = "message" /\ ev'.data = t

\* C21: drawing_clear empties strokeData and leaves promptData,
\* currentStroke, currentPrompt and the lock state unchanged; prompt_clear
\* empties promptData and leaves strokeData, currentStroke, currentPrompt
\* and the lock state unchanged.
C21_ClearsIndependent ==
  [][ /\ Handled("drawing_clear") =>
           /\ strokeData' = <<>>
           /\ UNCHANGED <<promptData, currentStroke, currentPrompt, lockVars>>
      /\ Handled("prompt_clear") =>
           /\ promptData' = <<>>
           /\ UNCHANGED <<strokeData, currentStroke, currentPrompt, lockVars>> ]_vars

\* A drawing_clear that found two strokes arrived while the view was locked
\* and a bbox prompt was in progress after another had been committed: the
\* strokes are gone, the rest is still there.
C21_Witness ==
  /\ ev.kind = "message" /\ ev.data = "drawing_clear"
  /\ ev.strokes = 2
  /\ strokeData = <<>>
  /\ promptData # <<>>
  /\ currentPrompt # Null
  /\ lockedBBox # Null

StateUpdate0 ==
  [type |-> "annotation_state_update", strokeCount |-> 0,
   canUndo |-> FALSE, canRedo |-> FALSE]

\* C22: an annotation_undo or annotation_clear message removes every stroke
\* from strokeData, leaves promptData unchanged and posts one
\* annotation_state_update with strokeCount 0, canUndo false and canRedo
\* false; every annotation_state_update posted has canUndo equal to
\* (strokeCount > 0) and canRedo false.
C22_UndoClearResetStrokes ==
  /\ [][ (Handled("annotation_undo") \/ Handled("annotation_clear")) =>
           /\ strokeData' = <<>>
           /\ UNCHANGED promptData
           /\ outbox' = <<StateUpdate0>> ]_vars
  /\ [](\A i \in 1..Len(outbox) :
          outbox[i].type = "annotation_state_update" =>
             /\ outbox[i].canUndo = (outbox[i].strokeCount > 0)
             /\ ~outbox[i].canRedo)

\* An annotation_undo that found two strokes and a committed prompt: both
\* strokes are gone, the prompt is kept, and the one message posted is the
\* state update with strokeCount 0.
C22_Witness ==
  /\ ev.kind = "message" /\ ev.data = "annotation_undo"
  /\ ev.strokes = 2
  /\ strokeData = <<>>
  /\ promptData # <<>>
  /\ outbox = <<StateUpdate0>>

====
